---- MODULE Spec2Model ----
(***************************************************************************)
(* State-machine model of CollaborativePainter (VirtualPainter.py).        *)
(*                                                                         *)
(* The program is one asyncio event loop with two long-lived coroutines,   *)
(* run() ("main") and receive_drawings() ("recv"), plus the detached       *)
(* ws.send tasks created by send_drawing.  asyncio is cooperative: a task  *)
(* runs until it reaches an await that suspends.  `cur` names the task     *)
(* that currently owns the event loop ("loop" = every task is suspended    *)
(* and the loop picks the next one); a step inside a task is enabled only  *)
(* while cur names that task.                                              *)
(***************************************************************************)
EXTENDS Integers, Sequences, FiniteSets, TLC

(* ---------------- program constants ---------------- *)
max_retries == 3
brushThickness == 15
eraserThickness == 50
HeaderHeight == 125

Pink == <<189, 189, 103>>
Blue == <<86, 48, 189>>
Green == <<17, 141, 255>>
Black == <<0, 0, 0>>

(* ---------------- bounds of the model ---------------- *)
\* number of connections the endpoint accepts during one session
MaxConns == 2

\* number of draw frames a session with the history switched on receives
MaxLog == 2

\* finger-tip positions the hand tracker reports, and the raster positions
\* at which the model samples the 1280x720 canvas
Xs == {300, 1100}
Ys == {100}
Pixels == Xs \X Ys

Tasks == {"main", "recv"}

(* ---------------- canvas (cv2.line on imgCanvas) ---------------- *)
Min(a, b) == IF a < b THEN a ELSE b
Max(a, b) == IF a < b THEN b ELSE a

NoStroke == [x1 |-> 0, y1 |-> 0, x2 |-> 0, y2 |-> 0, color |-> Black, thickness |-> 0]

\* Sample points painted by cv2.line(img, (x1,y1), (x2,y2), color, thickness):
\* the points within thickness/2 of the segment.  Exact for axis-parallel
\* segments (all segments over Xs \X Ys are), up to the rounded caps.
LinePixels(s) ==
    { p \in Pixels :
        /\ Min(s.x1, s.x2) - (s.thickness \div 2) <= p[1]
        /\ p[1] <= Max(s.x1, s.x2) + (s.thickness \div 2)
        /\ Min(s.y1, s.y2) - (s.thickness \div 2) <= p[2]
        /\ p[2] <= Max(s.y1, s.y2) + (s.thickness \div 2) }

cv2_line(img, s) ==
    [p \in Pixels |-> IF p \in LinePixels(s) THEN s.color ELSE img[p]]

BlankCanvas == [p \in Pixels |-> Black]


(* ---------------- brush selection ---------------- *)
update_current_brush(x1, col) ==
    IF 250 < x1 /\ x1 < 450 THEN Pink
    ELSE IF 550 < x1 /\ x1 < 750 THEN Blue
    ELSE IF 800 < x1 /\ x1 < 1000 THEN Green
    ELSE IF 1050 < x1 /\ x1 < 1200 THEN Black
    ELSE col

\* current_brush == 'eraser' exactly when the eraser region was selected
\* last, i.e. exactly when drawColor is black
ThicknessFor(col) == IF col = Black THEN eraserThickness ELSE brushThickness

(* ---------------- wire records (json.dumps / json.loads) ---------------- *)
RequiredFields == {"x1", "y1", "x2", "y2", "color", "thickness"}

\* the clock values datetime.now().timestamp() is rendered to
Timestamps == {"1.5"}

\* variant: the color channels are written in reverse (RGB for BGR)
EncodeDataReversed(s, ts) ==
    [type |-> "draw", x1 |-> s.x1, y1 |-> s.y1, x2 |-> s.x2, y2 |-> s.y2,
     color |-> <<s.color[3], s.color[2], s.color[1]>>, thickness |-> s.thickness,
     timestamp |-> ts]

\* the dict built by send_drawing (lines 122-131)
EncodeData(s, ts) ==
    [type |-> "draw", x1 |-> s.x1, y1 |-> s.y1, x2 |-> s.x2, y2 |-> s.y2,
     color |-> s.color, thickness |-> s.thickness, timestamp |-> ts]

\* a text frame: either JSON text of a value, or text json.loads rejects
JsonDumps(d) == [parse |-> "ok", data |-> d]
Unparseable == [parse |-> "error"]
NoMsg == [parse |-> "none"]

\* data.get('type')
GetType(d) == IF "type" \in DOMAIN d THEN d["type"] ELSE "None"

\* the arguments receive_drawings evaluates for cv2.line (lines 148-151);
\* a missing key raises KeyError before cv2.line is called
HasAllFields(d) == RequiredFields \subseteq DOMAIN d
DecodeArgs(d) ==
    [x1 |-> d["x1"], y1 |-> d["y1"], x2 |-> d["x2"], y2 |-> d["y2"],
     color |-> d["color"], thickness |-> d["thickness"]]

\* strokes a painter can produce: run() calls send_drawing(xp, yp, x1, y1,
\* drawColor, thickness)
Brushes == {Pink, Black}
Strokes ==
    { [x1 |-> a[1], y1 |-> a[2], x2 |-> b[1], y2 |-> b[2],
       color |-> c, thickness |-> ThicknessFor(c)] :
         a \in Pixels, b \in Pixels, c \in Brushes }

\* frames a peer's send_drawing can have produced
DrawMessages == { JsonDumps(EncodeData(s, ts)) : s \in Strokes, ts \in Timestamps }

BaseRecord == EncodeData(CHOOSE s \in Strokes : s.color = Pink /\ s.x1 # s.x2,
                         CHOOSE ts \in Timestamps : TRUE)

\* draw records that lack one required field
MissingFieldMessages ==
    { JsonDumps([k \in (DOMAIN BaseRecord) \ {f} |-> BaseRecord[k]]) : f \in RequiredFields }

\* well-formed records that are not draw events (foreign tag, or no tag)
NonDrawMessages ==
    { JsonDumps([type |-> "ping"]),
      JsonDumps([k \in (DOMAIN BaseRecord) \ {"type"} |-> BaseRecord[k]]) }

Messages == DrawMessages \cup MissingFieldMessages \cup NonDrawMessages \cup {Unparseable}

(* ---------------- state ---------------- *)
VARIABLES
    pc,             \* position of run() and receive_drawings()
    cur,            \* task that owns the event loop, or "loop"
    running, connected, local_mode, retry_count,
    ws,             \* 0 = None, n = the n-th connection object
    wsOpen,         \* the connection self.ws refers to is open
    drawLock,       \* "none" or the task holding asyncio.Lock
    imgCanvas, displayBuffer,
    drawColor, xp, yp, is_drawing,
    sargs,          \* arguments of the running send_drawing call
    rmsg,           \* message receive_drawings is handling
    pending,        \* detached ws.send tasks not yet run
    closing,        \* connection object cleanup() is closing (0 = none)
    attempts,       \* connection attempts made by the running connect_to_server call
    owed,           \* connected went True -> False and no attempt has started since
    hist            \* history of the draw frames received and applied (kept when hist.on)

netVars == <<running, connected, local_mode, retry_count, ws, wsOpen>>
canvasVars == <<imgCanvas, displayBuffer>>
gestureVars == <<drawColor, xp, yp, is_drawing>>
vars == <<pc, cur, running, connected, local_mode, retry_count, ws, wsOpen,
          drawLock, imgCanvas, displayBuffer, drawColor, xp, yp, is_drawing,
          sargs, rmsg, pending, closing, attempts, owed, hist>>

\* variant: the old snapshot is published again instead of a fresh copy
StaleSnapshot(img) == displayBuffer

\* self.imgCanvas.copy(): the snapshot published as displayBuffer
ndarray_copy(img) == img

\* the history of draw frames: how many recv has returned, the number of the
\* one being handled (0 = none), and the numbers applied to the canvas
NoHistory == [on |-> FALSE, received |-> 0, inhand |-> 0, applied |-> <<>>]

EmptyHistory == [on |-> TRUE, received |-> 0, inhand |-> 0, applied |-> <<>>]

\* __init__: init_drawing_settings, init_network, local_mode = False
InitProgram ==
    /\ pc = [main |-> "start", recv |-> "notcreated"]
    /\ cur = "main"
    /\ running = TRUE
    /\ connected = FALSE
    /\ local_mode = FALSE
    /\ retry_count = 0
    /\ ws = 0
    /\ wsOpen = FALSE
    /\ drawLock = "none"
    /\ imgCanvas = BlankCanvas
    /\ displayBuffer = BlankCanvas
    /\ drawColor = Pink
    /\ xp = 0
    /\ yp = 0
    /\ is_drawing = FALSE
    /\ sargs = NoStroke
    /\ rmsg = NoMsg
    /\ pending = <<>>
    /\ closing = 0
    /\ attempts = 0
    /\ owed = FALSE

Init == InitProgram /\ hist = NoHistory

(* ---------------- connect_to_server (lines 95-112) ---------------- *)
\* variant: the loop test lets one more attempt through
RetriesRemainOffByOne == retry_count <= max_retries

\* while self.retry_count < self.max_retries
RetriesRemain == retry_count < max_retries

\* the while test: start the next attempt (await websockets.connect), or
\* fall out of the loop and return False
ConnectLoop(t) ==
    /\ cur = t
    /\ pc[t] = "c_loop"
    /\ IF RetriesRemain
         THEN /\ pc' = [pc EXCEPT ![t] = "c_attempt"]
              /\ cur' = "loop"
              /\ attempts' = attempts + 1
              /\ owed' = FALSE
         ELSE /\ pc' = [pc EXCEPT ![t] = "c_retF"]
              /\ UNCHANGED <<cur, attempts, owed>>
    /\ UNCHANGED <<netVars, drawLock, canvasVars, gestureVars, sargs, rmsg, pending, closing, hist>>

\* variant: the connection is stored but the connected flag is not set
ConnectSucceedsNoFlag(t) ==
    /\ cur = "loop"
    /\ pc[t] = "c_attempt"
    /\ ws < MaxConns
    /\ ws' = ws + 1
    /\ wsOpen' = TRUE
    /\ pc' = [pc EXCEPT ![t] = "c_retT"]
    /\ cur' = t
    /\ UNCHANGED <<running, connected, local_mode, retry_count, drawLock, canvasVars,
                   gestureVars, sargs, rmsg, pending, closing, attempts, owed, hist>>

\* websockets.connect returned a connection: lines 99-106
ConnectSucceeds(t) ==
    /\ cur = "loop"
    /\ pc[t] = "c_attempt"
    /\ ws < MaxConns
    /\ ws' = ws + 1
    /\ wsOpen' = TRUE
    /\ connected' = TRUE
    /\ pc' = [pc EXCEPT ![t] = "c_retT"]
    /\ cur' = t
    /\ UNCHANGED <<running, local_mode, retry_count, drawLock, canvasVars, gestureVars,
                   sargs, rmsg, pending, closing, attempts, owed, hist>>

\* websockets.connect raised: lines 107-110, suspended in asyncio.sleep(1)
ConnectFails(t) ==
    /\ cur = "loop"
    /\ pc[t] = "c_attempt"
    /\ retry_count' = retry_count + 1
    /\ pc' = [pc EXCEPT ![t] = "c_backoff"]
    /\ UNCHANGED <<cur, running, connected, local_mode, ws, wsOpen, drawLock, canvasVars,
                   gestureVars, sargs, rmsg, pending, closing, attempts, owed, hist>>

\* asyncio.sleep(1) is over: back to the while test
BackoffWake(t) ==
    /\ cur = "loop"
    /\ pc[t] = "c_backoff"
    /\ pc' = [pc EXCEPT ![t] = "c_loop"]
    /\ cur' = t
    /\ UNCHANGED <<netVars, drawLock, canvasVars, gestureVars, sargs, rmsg, pending,
                   closing, attempts, owed, hist>>

(* ---------------- run (lines 175-240) ---------------- *)
\* variant: the negation is dropped
LocalModeNotNegated(ok) == ok

\* self.local_mode = not await self.connect_to_server()
LocalModeFrom(ok) == ~ok

\* if not self.local_mode: receive_task = asyncio.create_task(...)
StartsReceiveTask(lm) == ~lm

\* run() calls connect_to_server
RunStart ==
    /\ cur = "main"
    /\ pc["main"] = "start"
    /\ pc' = [pc EXCEPT !["main"] = "c_loop"]
    /\ attempts' = 0
    /\ UNCHANGED <<cur, netVars, drawLock, canvasVars, gestureVars, sargs, rmsg, pending,
                   closing, owed, hist>>

\* lines 178-188: the initial connect_to_server returned
RunAfterConnect ==
    /\ cur = "main"
    /\ pc["main"] \in {"c_retT", "c_retF"}
    /\ local_mode' = LocalModeFrom(pc["main"] = "c_retT")
    /\ pc' = [main |-> "frame",
              recv |-> IF StartsReceiveTask(local_mode') THEN "r_ready" ELSE "notcreated"]
    /\ attempts' = 0
    /\ UNCHANGED <<cur, running, connected, retry_count, ws, wsOpen, drawLock, canvasVars,
                   gestureVars, sargs, rmsg, pending, closing, owed, hist>>

ToComposite == pc' = [pc EXCEPT !["main"] = "composite"]

\* len(lmList) == 0: no hand in the frame (lines 189-197)
FrameNoHand ==
    /\ cur = "main"
    /\ pc["main"] = "frame"
    /\ ToComposite
    /\ UNCHANGED <<cur, netVars, drawLock, canvasVars, gestureVars, sargs, rmsg, pending,
                   closing, attempts, owed, hist>>

\* selection mode: index and middle finger up (lines 203-208)
FrameSelect(x1, y1) ==
    /\ cur = "main"
    /\ pc["main"] = "frame"
    /\ is_drawing' = FALSE
    /\ xp' = 0
    /\ yp' = 0
    /\ drawColor' = IF y1 < HeaderHeight THEN update_current_brush(x1, drawColor) ELSE drawColor
    /\ ToComposite
    /\ UNCHANGED <<cur, netVars, drawLock, canvasVars, sargs, rmsg, pending, closing,
                   attempts, owed, hist>>

\* drawing mode: index finger up, middle finger down (lines 211-217);
\* calls send_drawing(self.xp, self.yp, x1, y1, self.drawColor, thickness)
FrameDraw(x1, y1) ==
    /\ cur = "main"
    /\ pc["main"] = "frame"
    /\ xp' = IF is_drawing THEN xp ELSE x1
    /\ yp' = IF is_drawing THEN yp ELSE y1
    /\ is_drawing' = TRUE
    /\ sargs' = [x1 |-> xp', y1 |-> yp', x2 |-> x1, y2 |-> y1,
                 color |-> drawColor, thickness |-> ThicknessFor(drawColor)]
    /\ pc' = [pc EXCEPT !["main"] = "sd_lock"]
    /\ UNCHANGED <<cur, netVars, drawLock, canvasVars, drawColor, rmsg, pending, closing,
                   attempts, owed, hist>>

\* a hand with any other finger pattern (lines 219-220)
FrameIdle ==
    /\ cur = "main"
    /\ pc["main"] = "frame"
    /\ is_drawing' = FALSE
    /\ ToComposite
    /\ UNCHANGED <<cur, netVars, drawLock, canvasVars, drawColor, xp, yp, sargs, rmsg,
                   pending, closing, attempts, owed, hist>>

(* ---------------- send_drawing (lines 114-135) ---------------- *)
\* variant: the canvas is written without async with self.drawLock
SdLockSkipped ==
    /\ cur = "main"
    /\ pc["main"] = "sd_lock"
    /\ pc' = [pc EXCEPT !["main"] = "sd_line"]
    /\ UNCHANGED <<cur, netVars, drawLock, canvasVars, gestureVars, sargs, rmsg, pending,
                   closing, attempts, owed, hist>>

\* async with self.drawLock: asyncio.Lock.acquire takes a free lock without
\* suspending; a held lock parks the caller until it is released
SdLock ==
    /\ cur = "main"
    /\ pc["main"] = "sd_lock"
    /\ IF drawLock = "none"
         THEN /\ drawLock' = "main"
              /\ pc' = [pc EXCEPT !["main"] = "sd_line"]
              /\ cur' = cur
         ELSE /\ pc' = [pc EXCEPT !["main"] = "sd_lockwait"]
              /\ cur' = "loop"
              /\ drawLock' = drawLock
    /\ UNCHANGED <<netVars, canvasVars, gestureVars, sargs, rmsg, pending, closing,
                   attempts, owed, hist>>

\* cv2.line(self.imgCanvas, (x1, y1), (x2, y2), color, thickness)
SdLine ==
    /\ cur = "main"
    /\ pc["main"] = "sd_line"
    /\ imgCanvas' = cv2_line(imgCanvas, sargs)
    /\ pc' = [pc EXCEPT !["main"] = "sd_copy"]
    /\ UNCHANGED <<cur, netVars, drawLock, displayBuffer, gestureVars, sargs, rmsg, pending,
                   closing, attempts, owed, hist>>

\* self.displayBuffer = self.imgCanvas.copy(), then the lock is released
SdCopy ==
    /\ cur = "main"
    /\ pc["main"] = "sd_copy"
    /\ displayBuffer' = ndarray_copy(imgCanvas)
    /\ drawLock' = "none"
    /\ pc' = [pc EXCEPT !["main"] = "sd_dispatch"]
    /\ UNCHANGED <<cur, netVars, imgCanvas, gestureVars, sargs, rmsg, pending, closing,
                   attempts, owed, hist>>

\* variant: the connected flag is not looked at
ShouldDispatchIgnoresConnected == ~local_mode /\ ws # 0

\* if not self.local_mode and self.ws and self.connected
ShouldDispatch == ~local_mode /\ ws # 0 /\ connected

\* lines 120-132: build the record and create the detached ws.send task
SdDispatch ==
    /\ cur = "main"
    /\ pc["main"] = "sd_dispatch"
    /\ IF ShouldDispatch
         THEN \E ts \in Timestamps :
                pending' = Append(pending, [conn |-> ws, frame |-> JsonDumps(EncodeData(sargs, ts))])
         ELSE pending' = pending
    /\ pc' = [pc EXCEPT !["main"] = "sd_ret"]
    /\ UNCHANGED <<cur, netVars, drawLock, canvasVars, gestureVars, sargs, rmsg, closing,
                   attempts, owed, hist>>

\* lines 133-135: building or dispatching the record raised
SdDispatchRaises ==
    /\ cur = "main"
    /\ pc["main"] = "sd_dispatch"
    /\ ShouldDispatch
    /\ connected' = FALSE
    /\ owed' = TRUE
    /\ pc' = [pc EXCEPT !["main"] = "sd_ret"]
    /\ UNCHANGED <<cur, running, local_mode, retry_count, ws, wsOpen, drawLock, canvasVars,
                   gestureVars, sargs, rmsg, pending, closing, attempts, hist>>

\* send_drawing returned: self.xp, self.yp = x1, y1 (line 218)
SdReturn ==
    /\ cur = "main"
    /\ pc["main"] = "sd_ret"
    /\ xp' = sargs.x2
    /\ yp' = sargs.y2
    /\ sargs' = NoStroke
    /\ ToComposite
    /\ UNCHANGED <<cur, netVars, drawLock, canvasVars, drawColor, is_drawing, rmsg, pending,
                   closing, attempts, owed, hist>>

\* lines 222-235: composite displayBuffer over the frame, show it, poll the
\* keyboard; 'q' (or an exception in the loop body) leaves the loop for
\* cleanup, otherwise the loop suspends in asyncio.sleep(0.001)
Composite(quit) ==
    /\ cur = "main"
    /\ pc["main"] = "composite"
    /\ IF quit
         THEN /\ pc' = [pc EXCEPT !["main"] = "cleanup"]
              /\ cur' = cur
         ELSE /\ pc' = [pc EXCEPT !["main"] = "sleep"]
              /\ cur' = "loop"
    /\ UNCHANGED <<netVars, drawLock, canvasVars, gestureVars, sargs, rmsg, pending,
                   closing, attempts, owed, hist>>

\* the drawing loop is resumed: its 1 ms timer fired (the event loop runs
\* the ready detached send tasks before a timer can fire), or the lock it
\* was parked on has been released
MainWake ==
    /\ cur = "loop"
    /\ \/ /\ pc["main"] = "sleep"
          /\ pending = <<>>
          /\ pc' = [pc EXCEPT !["main"] = "frame"]
       \/ /\ pc["main"] = "sd_lockwait"
          /\ drawLock = "none"
          /\ pc' = [pc EXCEPT !["main"] = "sd_lock"]
    /\ cur' = "main"
    /\ UNCHANGED <<netVars, drawLock, canvasVars, gestureVars, sargs, rmsg, pending,
                   closing, attempts, owed, hist>>

(* ---------------- cleanup (lines 242-254) ---------------- *)
\* where cleanup goes once the connection is dealt with: await receive_task
\* suspends only if the task exists and has not finished
AfterClose == IF pc["recv"] \in {"notcreated", "done"} THEN "done" ELSE "join"

\* self.running = False; if self.ws: await self.ws.close()
Cleanup ==
    /\ cur = "main"
    /\ pc["main"] = "cleanup"
    /\ running' = FALSE
    /\ IF ws # 0
         THEN /\ closing' = ws
              /\ pc' = [pc EXCEPT !["main"] = "closing"]
         ELSE /\ closing' = closing
              /\ pc' = [pc EXCEPT !["main"] = AfterClose]
    /\ cur' = "loop"
    /\ UNCHANGED <<connected, local_mode, retry_count, ws, wsOpen, drawLock, canvasVars,
                   gestureVars, sargs, rmsg, pending, attempts, owed, hist>>

\* the close handshake started by cleanup closes the connection
WsCloseEffect ==
    /\ cur = "loop"
    /\ pc["main"] = "closing"
    /\ closing = ws
    /\ wsOpen
    /\ wsOpen' = FALSE
    /\ UNCHANGED <<pc, cur, running, connected, local_mode, retry_count, ws, drawLock,
                   canvasVars, gestureVars, sargs, rmsg, pending, closing, attempts, owed, hist>>

\* await self.ws.close() returns once that connection object is closed;
\* then: if receive_task: await receive_task
CloseReturns ==
    /\ cur = "loop"
    /\ pc["main"] = "closing"
    /\ closing # ws \/ ~wsOpen
    /\ pc' = [pc EXCEPT !["main"] = AfterClose]
    /\ UNCHANGED <<cur, netVars, drawLock, canvasVars, gestureVars, sargs, rmsg, pending,
                   closing, attempts, owed, hist>>

\* await receive_task returns when receive_drawings has returned
JoinReturns ==
    /\ cur = "loop"
    /\ pc["main"] = "join"
    /\ pc["recv"] = "done"
    /\ pc' = [pc EXCEPT !["main"] = "done"]
    /\ UNCHANGED <<cur, netVars, drawLock, canvasVars, gestureVars, sargs, rmsg, pending,
                   closing, attempts, owed, hist>>

(* ---------------- detached ws.send tasks (line 132) ---------------- *)
\* the task runs ws.send on the connection object it was created with
SendTaskOk ==
    /\ cur = "loop"
    /\ pc["main"] # "done"
    /\ pending # <<>>
    /\ Head(pending).conn = ws /\ wsOpen
    /\ pending' = Tail(pending)
    /\ UNCHANGED <<pc, cur, netVars, drawLock, canvasVars, gestureVars, sargs, rmsg,
                   closing, attempts, owed, hist>>

\* ws.send raises ConnectionClosed inside the detached task; nobody awaits
\* the task, so the exception is never delivered to send_drawing
SendTaskFails ==
    /\ cur = "loop"
    /\ pc["main"] # "done"
    /\ pending # <<>>
    /\ ~(Head(pending).conn = ws /\ wsOpen)
    /\ pending' = Tail(pending)
    /\ UNCHANGED <<pc, cur, netVars, drawLock, canvasVars, gestureVars, sargs, rmsg,
                   closing, attempts, owed, hist>>

(* ---------------- the network ---------------- *)
\* the server or the network drops the connection
ConnectionDrop ==
    /\ cur = "loop"
    /\ wsOpen
    /\ wsOpen' = FALSE
    /\ UNCHANGED <<pc, cur, running, connected, local_mode, retry_count, ws, drawLock,
                   canvasVars, gestureVars, sargs, rmsg, pending, closing, attempts, owed, hist>>

(* ---------------- receive_drawings (lines 137-162) ---------------- *)
\* variant: while True
LoopForever == TRUE

\* while self.running
LoopContinues == running

\* if self.ws and self.connected
ReceiveGuard == ws # 0 /\ connected

\* the task created by run() gets its first turn, its asyncio.sleep(0.001)
\* is over, or the lock it was parked on has been released
RecvWake ==
    /\ cur = "loop"
    /\ \/ /\ pc["recv"] \in {"r_ready", "r_sleep"}
          /\ pc' = [pc EXCEPT !["recv"] = "r_loop"]
       \/ /\ pc["recv"] = "r_lockwait"
          /\ drawLock = "none"
          /\ pc' = [pc EXCEPT !["recv"] = "r_lock"]
    /\ cur' = "recv"
    /\ UNCHANGED <<netVars, drawLock, canvasVars, gestureVars, sargs, rmsg, pending,
                   closing, attempts, owed, hist>>

\* lines 139-142: while self.running / if self.ws and self.connected.
\* With the guard false the loop body is empty: the await at line 162 is
\* inside the if, so the task goes round the while without ever suspending
\* ("r_spin": it keeps the event loop, no other task runs again).
RecvLoop ==
    /\ cur = "recv"
    /\ pc["recv"] = "r_loop"
    /\ IF ~LoopContinues
         THEN /\ pc' = [pc EXCEPT !["recv"] = "done"]
              /\ cur' = "loop"
         ELSE IF ReceiveGuard
         THEN /\ pc' = [pc EXCEPT !["recv"] = "r_recv"]
              /\ cur' = "loop"
         ELSE /\ pc' = [pc EXCEPT !["recv"] = "r_spin"]
              /\ cur' = cur
    /\ UNCHANGED <<netVars, drawLock, canvasVars, gestureVars, sargs, rmsg, pending,
                   closing, attempts, owed, hist>>

\* asyncio.TimeoutError: continue (line 155), straight back to the while test
RecvTimeout ==
    /\ cur = "loop"
    /\ pc["recv"] = "r_recv"
    /\ pc' = [pc EXCEPT !["recv"] = "r_loop"]
    /\ cur' = "recv"
    /\ UNCHANGED <<netVars, drawLock, canvasVars, gestureVars, sargs, rmsg, pending,
                   closing, attempts, owed, hist>>

\* a draw record with every field cv2.line is given
WellFormedDraw(m) == m.parse = "ok" /\ GetType(m.data) = "draw" /\ HasAllFields(m.data)

\* ws.recv() returned a frame; the history numbers the draw frames in the
\* order recv returns them
RecvMessage(m) ==
    /\ cur = "loop"
    /\ pc["recv"] = "r_recv"
    /\ wsOpen
    /\ (hist.on /\ WellFormedDraw(m)) => hist.received < MaxLog
    /\ hist' = IF ~hist.on THEN hist
               ELSE IF WellFormedDraw(m)
                 THEN [hist EXCEPT !.received = @ + 1, !.inhand = hist.received + 1]
                 ELSE [hist EXCEPT !.inhand = 0]
    /\ rmsg' = m
    /\ pc' = [pc EXCEPT !["recv"] = "r_parse"]
    /\ cur' = "recv"
    /\ UNCHANGED <<netVars, drawLock, canvasVars, gestureVars, sargs, pending, closing,
                   attempts, owed>>

\* websockets.exceptions.ConnectionClosed (lines 156-159):
\* self.connected = False; await self.connect_to_server()
RecvClosed ==
    /\ cur = "loop"
    /\ pc["recv"] = "r_recv"
    /\ ~wsOpen
    /\ connected' = FALSE
    /\ owed' = (owed \/ connected)
    /\ attempts' = 0
    /\ pc' = [pc EXCEPT !["recv"] = "c_loop"]
    /\ cur' = "recv"
    /\ UNCHANGED <<running, local_mode, retry_count, ws, wsOpen, drawLock, canvasVars,
                   gestureVars, sargs, rmsg, pending, closing, hist>>

\* variant: a failed reconnect switches to local mode
RecvAfterConnectEntersLocal ==
    /\ cur = "recv"
    /\ pc["recv"] \in {"c_retT", "c_retF"}
    /\ local_mode' = (pc["recv"] = "c_retF")
    /\ pc' = [pc EXCEPT !["recv"] = "r_after"]
    /\ attempts' = 0
    /\ UNCHANGED <<cur, running, connected, retry_count, ws, wsOpen, drawLock, canvasVars,
                   gestureVars, sargs, rmsg, pending, closing, owed, hist>>

\* the reconnect returned (its result is discarded): on to line 162
RecvAfterConnect ==
    /\ cur = "recv"
    /\ pc["recv"] \in {"c_retT", "c_retF"}
    /\ pc' = [pc EXCEPT !["recv"] = "r_after"]
    /\ attempts' = 0
    /\ UNCHANGED <<cur, netVars, drawLock, canvasVars, gestureVars, sargs, rmsg, pending,
                   closing, owed, hist>>

\* where the handler goes when it is done with the message, normally or
\* through except Exception (lines 160-161): on to line 162
HandlerDone ==
    /\ pc' = [pc EXCEPT !["recv"] = "r_after"]
    /\ UNCHANGED <<cur, rmsg>>

\* variant: the frame just handled is handled again
RecvYieldReplays ==
    /\ cur = "recv"
    /\ pc["recv"] = "r_after"
    /\ pc' = [pc EXCEPT !["recv"] = IF rmsg = NoMsg THEN "r_sleep" ELSE "r_parse"]
    /\ cur' = IF rmsg = NoMsg THEN "loop" ELSE "recv"
    /\ UNCHANGED <<netVars, drawLock, canvasVars, gestureVars, sargs, rmsg, pending, closing,
                   attempts, owed, hist>>

\* await asyncio.sleep(0.001) (line 162); message and data are dead from here
RecvYield ==
    /\ cur = "recv"
    /\ pc["recv"] = "r_after"
    /\ pc' = [pc EXCEPT !["recv"] = "r_sleep"]
    /\ cur' = "loop"
    /\ rmsg' = NoMsg
    /\ hist' = [hist EXCEPT !.inhand = 0]
    /\ UNCHANGED <<netVars, drawLock, canvasVars, gestureVars, sargs, pending, closing,
                   attempts, owed>>

\* variant: the type tag is not looked at
IsDrawUnchecked(m) == m.parse = "ok"

\* data = json.loads(message); if data.get('type') == 'draw'
IsDraw(m) == m.parse = "ok" /\ GetType(m.data) = "draw"

RecvParse ==
    /\ cur = "recv"
    /\ pc["recv"] = "r_parse"
    /\ IF IsDraw(rmsg)
         THEN /\ pc' = [pc EXCEPT !["recv"] = "r_lock"]
              /\ UNCHANGED <<cur, rmsg>>
         ELSE HandlerDone
    /\ UNCHANGED <<netVars, drawLock, canvasVars, gestureVars, sargs, pending, closing,
                   attempts, owed, hist>>

\* async with self.drawLock
RecvLock ==
    /\ cur = "recv"
    /\ pc["recv"] = "r_lock"
    /\ IF drawLock = "none"
         THEN /\ drawLock' = "recv"
              /\ pc' = [pc EXCEPT !["recv"] = "r_line"]
              /\ cur' = cur
         ELSE /\ pc' = [pc EXCEPT !["recv"] = "r_lockwait"]
              /\ cur' = "loop"
              /\ drawLock' = drawLock
    /\ UNCHANGED <<netVars, canvasVars, gestureVars, sargs, rmsg, pending, closing,
                   attempts, owed, hist>>

\* variant: the lock is released by hand after cv2.line, so an exception
\* leaves it held
KeyErrorLockKept ==
    /\ drawLock' = drawLock
    /\ imgCanvas' = imgCanvas
    /\ HandlerDone

\* a missing key raises KeyError while the arguments of cv2.line are
\* evaluated: cv2.line is not called, the exception leaves the async with
\* block (releasing the lock) and is caught at line 160
KeyErrorRaised ==
    /\ drawLock' = "none"
    /\ imgCanvas' = imgCanvas
    /\ HandlerDone

\* cv2.line(self.imgCanvas, (data['x1'], data['y1']), ..., data['thickness'])
RecvLine ==
    /\ cur = "recv"
    /\ pc["recv"] = "r_line"
    /\ IF HasAllFields(rmsg.data)
         THEN /\ imgCanvas' = cv2_line(imgCanvas, DecodeArgs(rmsg.data))
              /\ hist' = IF hist.on THEN [hist EXCEPT !.applied = Append(@, hist.inhand)]
                         ELSE hist
              /\ pc' = [pc EXCEPT !["recv"] = "r_copy"]
              /\ UNCHANGED <<cur, rmsg, drawLock>>
         ELSE /\ KeyErrorRaised
              /\ hist' = hist
    /\ UNCHANGED <<netVars, displayBuffer, gestureVars, sargs, pending, closing,
                   attempts, owed>>

\* self.displayBuffer = self.imgCanvas.copy(), and the lock is released
RecvCopy ==
    /\ cur = "recv"
    /\ pc["recv"] = "r_copy"
    /\ displayBuffer' = ndarray_copy(imgCanvas)
    /\ drawLock' = "none"
    /\ HandlerDone
    /\ UNCHANGED <<netVars, imgCanvas, gestureVars, sargs, pending, closing, attempts, owed, hist>>

(* ---------------- the program ---------------- *)
MainNext ==
    \/ RunStart
    \/ RunAfterConnect
    \/ FrameNoHand
    \/ \E x1 \in Xs, y1 \in Ys : FrameSelect(x1, y1)
    \/ \E x1 \in Xs, y1 \in Ys : FrameDraw(x1, y1)
    \/ FrameIdle
    \/ SdLock
    \/ SdLine
    \/ SdCopy
    \/ SdDispatch
    \/ SdDispatchRaises
    \/ SdReturn
    \/ \E quit \in BOOLEAN : Composite(quit)
    \/ MainWake
    \/ Cleanup
    \/ CloseReturns
    \/ JoinReturns

RecvNext ==
    \/ RecvWake
    \/ RecvLoop
    \/ RecvTimeout
    \/ \E m \in Messages : RecvMessage(m)
    \/ RecvClosed
    \/ RecvAfterConnect
    \/ RecvParse
    \/ RecvLock
    \/ RecvLine
    \/ RecvCopy
    \/ RecvYield

ConnectNext ==
    \/ \E t \in Tasks : ConnectLoop(t)
    \/ \E t \in Tasks : ConnectSucceeds(t)
    \/ \E t \in Tasks : ConnectFails(t)
    \/ \E t \in Tasks : BackoffWake(t)

NetNext ==
    \/ SendTaskOk
    \/ SendTaskFails
    \/ ConnectionDrop
    \/ WsCloseEffect

Next == MainNext \/ RecvNext \/ ConnectNext \/ NetNext

Spec == Init /\ [][Next]_vars

\* the same program with the history of received and applied frames kept
InitLog == InitProgram /\ hist = EmptyHistory

SpecLog == InitLog /\ [][Next]_vars

\* The event loop runs every ready task (FIFO ready queue), timers fire, and
\* every network operation completes or fails (websockets' open and close
\* timeouts).  The user need never quit and the connection need never drop.
SendTaskNext == SendTaskOk \/ SendTaskFails

FairSpec ==
    /\ Spec
    /\ SF_vars(MainNext)
    /\ SF_vars(RecvNext)
    /\ SF_vars(ConnectNext)
    /\ SF_vars(SendTaskNext)
    /\ SF_vars(WsCloseEffect)

(* ======================= properties ======================= *)
ConnectLabels == {"c_loop", "c_attempt", "c_backoff", "c_retT", "c_retF"}

\* the initial connect_to_server call of run() has returned
InitialConnectDone == pc["main"] \notin ({"start"} \cup ConnectLabels)

\* no connection exists and no network operation is pending or in progress
NetworkIdle ==
    /\ ws = 0
    /\ ~wsOpen
    /\ pending = <<>>
    /\ closing = 0
    /\ pc["recv"] = "notcreated"
    /\ pc["main"] \notin (ConnectLabels \cup {"closing", "join"})

\* both buffers show stroke s
StrokeApplied(s) ==
    \A p \in LinePixels(s) : imgCanvas[p] = s.color /\ displayBuffer[p] = s.color

\* C1: when every attempt of the initial connect_to_server fails the client
\* is in local mode, and in local mode every send_drawing call has applied
\* its stroke to imgCanvas and displayBuffer when it returns, while no
\* connection exists and no connection attempt, websocket send, recv or
\* close is ever started.
C1_LocalModeNoNetwork ==
    /\ (InitialConnectDone /\ ws = 0) => local_mode
    /\ local_mode => NetworkIdle
    /\ (local_mode /\ pc["main"] = "sd_ret") => StrokeApplied(sargs)

C1_Witness ==
    /\ local_mode
    /\ retry_count = max_retries
    /\ pc["main"] = "sd_ret"
    /\ sargs.color = Pink
    /\ imgCanvas # BlankCanvas

\* C2: the drawing loop, suspended in its asyncio.sleep(0.001), is always
\* eventually scheduled again (the receive task never keeps the event loop).
C2_DrawingLoopProgress == (pc["main"] = "sleep") ~> (pc["main"] = "frame")

\* C3: every connect_to_server call that returns False, the initial one and
\* each reconnect alike, has made exactly max_retries connection attempts.
C3_ExactRetryCount == \A t \in Tasks : pc[t] = "c_retF" => attempts = max_retries

\* C4: when the session has ended, every True -> False change of connected
\* has been followed by a connection attempt.
C4_RetryFollowsDisconnect == pc["main"] = "done" => ~owed

\* C5: once running is False the receive task terminates and cleanup's await
\* on it completes, wherever the receive task was suspended.
C5_ReceiveTaskTerminates ==
    (~running) ~> (pc["recv"] \in {"notcreated", "done"} /\ pc["main"] = "done")

C5_Witness ==
    /\ ~running
    /\ pc["recv"] = "done"
    /\ pc["main"] = "done"
    /\ retry_count > 0

\* C6: when cleanup has completed the client holds no open connection.
C6_ClosedAfterCleanup == pc["main"] = "done" => ~wsOpen

Malformed(m) ==
    \/ m.parse = "error"
    \/ m.parse = "ok" /\ GetType(m.data) = "draw" /\ ~HasAllFields(m.data)

\* C7: no step of the handling of a malformed message (unparseable, or a
\* draw record lacking a required field) changes imgCanvas, displayBuffer,
\* connected, ws or the retry state or starts a reconnect; when the handler
\* is done the draw lock is free, and the task goes on to its sleep and
\* the next iteration.
C7_MalformedDropped ==
    [][ (cur = "recv" /\ pc["recv"] \in {"r_parse", "r_lock", "r_line", "r_after"}
           /\ Malformed(rmsg))
        => /\ imgCanvas' = imgCanvas
           /\ displayBuffer' = displayBuffer
           /\ connected' = connected
           /\ ws' = ws
           /\ wsOpen' = wsOpen
           /\ retry_count' = retry_count
           /\ pc["recv"] = "r_after" => pc'["recv"] = "r_sleep"
           /\ pc["recv"] # "r_after" => pc'["recv"] \in {"r_lock", "r_line", "r_after"}
           /\ pc'["recv"] \in {"r_after", "r_sleep"} => drawLock' = "none" ]_vars

C7_Witness ==
    /\ pc["recv"] = "r_after"
    /\ rmsg.parse = "ok"
    /\ Malformed(rmsg)
    /\ "color" \notin DOMAIN rmsg.data
    /\ connected
    /\ wsOpen

WellFormedNonDraw(m) == m.parse = "ok" /\ GetType(m.data) # "draw"

\* C8: handling a well-formed message whose type is not "draw" changes
\* neither imgCanvas nor displayBuffer nor the connection flags, and the
\* draw lock is not acquired for it.
C8_NonDrawIgnored ==
    [][ (cur = "recv" /\ pc["recv"] \in {"r_parse", "r_after"} /\ WellFormedNonDraw(rmsg))
        => /\ imgCanvas' = imgCanvas
           /\ displayBuffer' = displayBuffer
           /\ connected' = connected
           /\ local_mode' = local_mode
           /\ running' = running
           /\ drawLock = "none"
           /\ drawLock' = "none"
           /\ pc'["recv"] \in {"r_after", "r_sleep"} ]_vars

C8_Witness ==
    /\ pc["recv"] = "r_after"
    /\ WellFormedNonDraw(rmsg)
    /\ HasAllFields(rmsg.data)
    /\ imgCanvas = BlankCanvas

\* C9: whenever another task can run, whenever the drawing loop composites,
\* and whenever the draw lock is free, displayBuffer equals imgCanvas.
C9_NoPartialStroke ==
    (cur = "loop" \/ pc["main"] = "composite" \/ drawLock = "none")
        => displayBuffer = imgCanvas

C9_Witness ==
    /\ pc["main"] = "composite"
    /\ pc["recv"] = "r_sleep"
    /\ \E p, q \in Pixels : displayBuffer[p] # Black /\ displayBuffer[q] = Black

\* the stroke a received draw frame was produced from by the sender's
\* send_drawing
SentStroke(m) ==
    CHOOSE s \in Strokes : \E ts \in Timestamps : m = JsonDumps(EncodeData(s, ts))

\* C10: a draw frame that a peer's send_drawing produced for a stroke and
\* that a connected client receives is eventually applied by that client
\* with the same end points, color and thickness as the sender's stroke.
C10_RemoteStrokeApplied ==
    (pc["recv"] = "r_parse" /\ rmsg \in DrawMessages)
        ~> (/\ pc["recv"] = "r_after"
            /\ rmsg \in DrawMessages
            /\ DecodeArgs(rmsg.data) = SentStroke(rmsg)
            /\ StrokeApplied(SentStroke(rmsg)))

C10_Witness ==
    /\ pc["recv"] = "r_after"
    /\ rmsg \in DrawMessages
    /\ rmsg.data["color"] = Pink
    /\ rmsg.data["x1"] # rmsg.data["x2"]
    /\ StrokeApplied(DecodeArgs(rmsg.data))

\* C11: connected and local_mode are never both True.
C11_ConnectedExcludesLocalMode == ~(connected /\ local_mode)

C11_Witness ==
    /\ connected
    /\ ~local_mode
    /\ ws > 1
    /\ ~running

\* C12: when a detached ws.send task fails, connected becomes False.
C12_SendFailureDisconnects == [][SendTaskFails => ~connected']_vars

\* the labels of run() inside send_drawing
SdLabels == {"sd_lock", "sd_lockwait", "sd_line", "sd_copy", "sd_dispatch", "sd_ret"}

\* C13: a send_drawing call never suspends: while run() is inside it, run()
\* owns the event loop, it finds the draw lock free, and it is never parked;
\* no task holds the draw lock while it is suspended.
C13_SendDrawingNeverBlocks ==
    /\ pc["main"] \in SdLabels => cur = "main"
    /\ pc["main"] = "sd_lock" => drawLock = "none"
    /\ pc["main"] # "sd_lockwait"
    /\ cur = "loop" => drawLock = "none"

C13_Witness ==
    /\ pc["main"] = "sd_ret"
    /\ pc["recv"] \in {"c_attempt", "c_backoff"}
    /\ ~wsOpen
    /\ StrokeApplied(sargs)
    /\ sargs.color = Pink

\* C14: run() and receive_drawings are never both inside the section that
\* draws into imgCanvas and republishes displayBuffer, a task inside it
\* holds the draw lock, and every step that changes imgCanvas or
\* displayBuffer is taken by the task holding the draw lock.
C14_CanvasMutualExclusion ==
    [][ /\ ~(pc["main"] \in {"sd_line", "sd_copy"} /\ pc["recv"] \in {"r_line", "r_copy"})
        /\ pc["main"] \in {"sd_line", "sd_copy"} => drawLock = "main"
        /\ pc["recv"] \in {"r_line", "r_copy"} => drawLock = "recv"
        /\ canvasVars' # canvasVars => (drawLock \in Tasks /\ cur = drawLock) ]_vars

C14_Witness ==
    /\ pc["recv"] = "r_copy"
    /\ drawLock = "recv"
    /\ pc["main"] = "sleep"
    /\ imgCanvas # displayBuffer
    /\ displayBuffer # BlankCanvas

\* the test of line 120, written out
DispatchCondition == ~local_mode /\ ws # 0 /\ connected

\* C15: a detached send is created only by send_drawing, after the stroke
\* is applied to both buffers, only when local_mode is False, ws is set and
\* connected is True at that moment, and then it is exactly one draw record
\* of that stroke; otherwise send_drawing creates none, and no other step
\* ever queues one.
C15_DispatchOnlyWhenConnected ==
    [][ /\ Len(pending') > Len(pending)
            => /\ cur = "main" /\ pc["main"] = "sd_dispatch"
               /\ DispatchCondition
               /\ StrokeApplied(sargs)
               /\ \E ts \in Timestamps :
                    pending' = Append(pending, [conn |-> ws,
                                                frame |-> JsonDumps(EncodeData(sargs, ts))])
        /\ (cur = "main" /\ pc["main"] = "sd_dispatch" /\ ~DispatchCondition)
            => pending' = pending
        /\ (cur = "main" /\ pc["main"] = "sd_dispatch" /\ DispatchCondition /\ connected')
            => Len(pending') = Len(pending) + 1 ]_vars

C15_Witness ==
    /\ pc["main"] = "sd_ret"
    /\ pending # <<>>
    /\ \E ts \in Timestamps :
         pending[Len(pending)] = [conn |-> ws, frame |-> JsonDumps(EncodeData(sargs, ts))]
    /\ StrokeApplied(sargs)
    /\ sargs.x1 # sargs.x2

\* C16: local_mode is False whenever the receive task exists, in particular
\* when a mid-session reconnect has returned False; once the retries are
\* used up in a session that had a connection, connected and local_mode
\* are both False.
C16_ReconnectFailureNotLocalMode ==
    /\ pc["recv"] # "notcreated" => ~local_mode
    /\ pc["recv"] = "c_retF" => ~connected
    /\ (ws # 0 /\ retry_count = max_retries) => (~connected /\ ~local_mode)

C16_Witness ==
    /\ pc["recv"] = "r_after"
    /\ retry_count = max_retries
    /\ ws # 0
    /\ ~connected
    /\ ~local_mode

(* C17: the receive task applies remote draw frames in the order recv returned
   them, and each frame at most once: the numbers of the applied frames are
   strictly increasing and are numbers of frames already received. *)
C17_RemoteStrokesInOrderOnce ==
    /\ \A i \in 1..Len(hist.applied) : hist.applied[i] \in 1..hist.received
    /\ \A i, j \in 1..Len(hist.applied) : i < j => hist.applied[i] < hist.applied[j]
    /\ (pc["recv"] \in {"r_parse", "r_lock", "r_line"} /\ hist.inhand # 0)
          => \A i \in 1..Len(hist.applied) : hist.applied[i] < hist.inhand

\* two remote frames have been received and both applied
C17_Witness ==
    /\ hist.on
    /\ hist.applied = <<1, 2>>
    /\ pc["recv"] = "r_sleep"

\* task t is inside connect_to_server and has not reached a return statement
InConnect(t) == pc[t] \in {"c_loop", "c_attempt", "c_backoff"}

(* C18: connect_to_server always returns. It returns True exactly from an
   attempt that succeeded, with connected True and ws the connection just made;
   it returns False without a successful attempt and without having set
   connected; connected becomes True nowhere else. *)
C18_ConnectReturnsOutcome ==
    /\ [](\A t \in Tasks :
            /\ pc[t] = "c_retT" => (connected /\ ws # 0 /\ wsOpen /\ attempts >= 1)
            /\ pc[t] = "c_retF" => (~connected /\ ~RetriesRemain))
    /\ [][\A t \in Tasks :
            /\ (pc'[t] = "c_retT" /\ pc[t] # "c_retT")
                  => (pc[t] = "c_attempt" /\ ws' = ws + 1 /\ connected')
            /\ (pc'[t] = "c_retF" /\ pc[t] # "c_retF")
                  => (pc[t] = "c_loop" /\ ws' = ws /\ connected' = connected)
            /\ (InConnect(t) /\ connected' /\ ~connected) => pc'[t] = "c_retT"]_vars
    /\ \A t \in Tasks : InConnect(t) ~> (pc[t] \in {"c_retT", "c_retF"})

\* a reconnection from the receive task succeeded at its first attempt, after
\* the initial call had needed three
C18_Witness ==
    /\ pc["recv"] = "c_retT"
    /\ ws = 2
    /\ attempts = 1
    /\ retry_count = 2
    /\ connected

(* C19: once running is False no connection attempt is started and no recv is
   issued; the receive task only leaves its loop. *)
C19_NoNetworkAfterShutdown ==
    [][~running =>
         /\ \A t \in Tasks : ~(pc'[t] = "c_attempt" /\ pc[t] # "c_attempt")
         /\ ~(pc'["recv"] = "r_recv" /\ pc["recv"] # "r_recv")]_vars

(* C20: retry_count is a budget for the whole session. It starts at 0, stays
   within 0..max_retries, never decreases (neither a successful connection nor
   a new connect_to_server call resets it), grows only by one per failed
   attempt, and no attempt starts once it equals max_retries. *)
C20_SessionWideRetryBudget ==
    /\ retry_count = 0
    /\ [](retry_count \in 0..max_retries)
    /\ [][/\ retry_count' >= retry_count
          /\ (retry_count' # retry_count)
                => (/\ retry_count' = retry_count + 1
                    /\ \E t \in Tasks : (pc[t] = "c_attempt" /\ pc'[t] = "c_backoff"))
          /\ (ws' # ws) => (retry_count' = retry_count)
          /\ (\E t \in Tasks : (pc'[t] = "c_loop" /\ pc[t] \notin {"c_loop", "c_backoff"}))
                => (retry_count' = retry_count)
          /\ (retry_count = max_retries)
                => (\A t \in Tasks : ~(pc'[t] = "c_attempt" /\ pc[t] # "c_attempt"))]_vars

\* the budget is used up across two calls: the session connected after two
\* failures, lost the connection, and the reconnection failed once
C20_Witness ==
    /\ retry_count = max_retries
    /\ ws = 1
    /\ pc["recv"] = "c_retF"
    /\ attempts = 1

====
